---- MODULE Spec2Model ----
(***************************************************************************)
(* A model of the blockchain double-spending simulator:                    *)
(*   blockchain.py  Block, Blockchain (ledger, proof of work, validation)  *)
(*   attack.py      AttackerNode.race_attack / fifty_one_attack            *)
(*   node.py        Node.add_block / resolve_conflicts / validate_chain    *)
(*   app.py         the request handlers on the module-level ledger        *)
(*                                                                         *)
(* Specifications: Spec (the ledger's calls and the attacks, one at a      *)
(* time), SpecNode (a Node and its peers), SpecValid (is_chain_valid on    *)
(* any chain), SpecConc (the handlers as threads), SpecMajority            *)
(* (fifty_one_attack under fairness), SpecHonest (add_transaction and      *)
(* mine_pending only).                                                     *)
(*                                                                         *)
(* Python lists are objects: `lists` is the heap of chain lists and a      *)
(* ledger's `chain` field is a reference into it, so that aliasing between *)
(* the honest ledger and the attacker's fork is something the model can    *)
(* show or rule out.                                                       *)
(*                                                                         *)
(* SHA-256 is modelled as an ideal hash: a digest is the pair of a         *)
(* pseudo-random prefix of HashDigits hex digits (`lead`, which decides    *)
(* the leading zeros and depends on the nonce) and the hashed text itself  *)
(* (`pre`), which makes the digest collision free.                         *)
(***************************************************************************)
EXTENDS Integers, Sequences, FiniteSets, TLC

VARIABLES
    blockchain,      \* the honest ledger (app.py:18, test setUp, Node.blockchain)
    attacker_chain,  \* the attacker's fork, a local of the running attack
    lists,           \* heap of chain lists: reference -> sequence of blocks
    attacker,        \* the AttackerNode object: its hash_power
    pc,              \* position of the running attack / resolve_conflicts
    frame,           \* locals of the running attack
    call,            \* the most recent Blockchain method call and its result
    now,             \* the clock read by time.time()
    accepted,        \* how many add_transaction calls have returned a transaction
    ops,             \* how many top-level calls have changed the ledger
    peers,           \* what each peer of the Node serves on GET /chain
    rc,              \* locals of the running Node.resolve_conflicts
    mine,            \* locals of a mine_pending that runs in a thread of its own
    seen             \* the chain and pending pool the last render_home read

vars == <<blockchain, attacker_chain, lists, attacker, pc, frame, call, now, accepted,
          ops, peers, rc, mine, seen>>

-----------------------------------------------------------------------------
(* Bounds of the model *)

\* top-level calls that change the ledger
MaxOps == 2
MaxTime == 1
\* hex digits of a digest's prefix
HashDigits == 2
\* blocks of the chain a peer serves
MaxPeerChain == 3
\* blocks sealed and fields changed in a chain that is_chain_valid is given
MaxForge == 3

(* Program constants *)

HexBase == 16
MINING_REWARD == 10
DEFAULT_HASH_POWER == 6

DEFAULT_CURRENCY == "USDT"
Network == "Network"

RECURSIVE Pow(_, _)
Pow(b, e) == IF e = 0 THEN 1 ELSE b * Pow(b, e - 1)

HashSpace == Pow(HexBase, HashDigits)

-----------------------------------------------------------------------------
(* Values *)

\* a Python number; kind "inf" / "nan" are the non-finite floats and kind
\* "text" is a value float() cannot convert
Num(n) == [kind |-> "num", val |-> n]
Inf == [kind |-> "inf", val |-> 0]
NaN == [kind |-> "nan", val |-> 0]
Text == [kind |-> "text", val |-> 0]

Tx(s, r, a, c) == [sender |-> s, receiver |-> r, amount |-> a, currency |-> c]

NoTx == Tx("", "", Num(0), "")

\* "0" * 64, the previous_hash of a genesis block
ZeroHash == [lead |-> 0, pre |-> <<>>]

\* "", the hash field of a block that was never sealed
EmptyHash == [lead |-> HashSpace, pre |-> <<>>]

Block(i, ph, ts, txs, n, h) ==
    [index |-> i, previous_hash |-> ph, timestamp |-> ts,
     transactions |-> txs, nonce |-> n, hash |-> h]

NoBlock == Block(0 - 1, EmptyHash, 0, <<>>, 0, EmptyHash)

-----------------------------------------------------------------------------
(* blockchain.py: hashing *)

RECURSIVE AmountSum(_)
AmountSum(txs) ==
    IF txs = <<>> THEN 0
    ELSE (IF Head(txs).amount.val < 0 THEN 0 - Head(txs).amount.val
          ELSE Head(txs).amount.val) + 1 + AmountSum(Tail(txs))

\* json.dumps(block_dict, sort_keys=True, default=str): the canonical text
\* of the five hashed fields (records have no key order)
Serialize(block) ==
    <<block.index, block.previous_hash, block.timestamp,
      block.transactions, block.nonce>>

\* the step by which the digest prefix moves per nonce: odd, so every
\* prefix is met by some nonce
NonceStride == Pow(HexBase, HashDigits - 1) + 1

\* the prefix is spread over the digest space: a small input does not give
\* a small digest
sha256(data) ==
    [lead |-> (HashSpace \div 2 + 3 * (data[1] + 1) + 11 * data[2].lead + 5 * data[3]
               + 7 * AmountSum(data[4]) + NonceStride * data[5]) % HashSpace,
     pre |-> data]

compute_hash(block) == sha256(Serialize(block))

\* computed.startswith("0" * difficulty)
StartsWithZeros(h, d) ==
    /\ d <= HashDigits
    /\ h.lead < Pow(HexBase, HashDigits - d)

-----------------------------------------------------------------------------
(* blockchain.py: the ledger *)

\* the state of a Blockchain object; chain is a reference into `lists`
Ledger(d, ra, rcur, ref, pend) ==
    [difficulty |-> d, reward_amount |-> ra, reward_currency |-> rcur,
     chain |-> ref, pending |-> pend]

NoLedger == Ledger(0, Num(0), "", 0, <<>>)

create_genesis(self, t) ==
    LET genesis_tx == Tx(Network, "genesis", Num(0), self.reward_currency)
        genesis == Block(0, ZeroHash, t, <<genesis_tx>>, 0, EmptyHash)
    IN  <<[genesis EXCEPT !.hash = compute_hash(genesis)]>>

get_last_block(chain) == chain[Len(chain)]

\* float(amount) raises for a value that is no number
FloatRaises(amount) == amount.kind = "text"

LeqZero_strict(amt) == amt.kind = "num" /\ amt.val < 0

\* amt <= 0 on a Python float: false for +inf and for NaN
LeqZero(amt) == amt.kind = "num" /\ amt.val <= 0

AddRaises(amount) == FloatRaises(amount) \/ LeqZero(amount)

\* the transaction add_transaction builds; currency "None" is the omitted
\* argument
NewTx(self, sender, receiver, amount, currency) ==
    Tx(sender, receiver, amount,
       IF currency = "None" THEN self.reward_currency ELSE currency)

add_transaction_prepend(self, sender, receiver, amount, currency) ==
    IF AddRaises(amount) THEN self.pending
    ELSE <<NewTx(self, sender, receiver, amount, currency)>> \o self.pending

\* the pending pool after add_transaction
add_transaction(self, sender, receiver, amount, currency) ==
    IF AddRaises(amount) THEN self.pending
    ELSE Append(self.pending, NewTx(self, sender, receiver, amount, currency))

RECURSIVE NonceSearch_from1(_, _, _)
NonceSearch_from1(block, nonce, difficulty) ==
    IF nonce = 0 THEN NonceSearch_from1(block, 1, difficulty)
    ELSE IF StartsWithZeros(compute_hash([block EXCEPT !.nonce = nonce]), difficulty)
    THEN nonce
    ELSE NonceSearch_from1(block, nonce + 1, difficulty)

\* the loop of proof_of_work from `nonce` on: the nonce it stops at
RECURSIVE NonceSearch(_, _, _)
NonceSearch(block, nonce, difficulty) ==
    IF StartsWithZeros(compute_hash([block EXCEPT !.nonce = nonce]), difficulty)
    THEN nonce
    ELSE NonceSearch(block, nonce + 1, difficulty)

proof_of_work_nosearch(self, block) ==
    [block EXCEPT !.nonce = 0, !.hash = compute_hash([block EXCEPT !.nonce = 0])]

\* the block as proof_of_work leaves it, with the returned hash stored
proof_of_work(self, block) ==
    LET n == NonceSearch(block, 0, self.difficulty)
        b == [block EXCEPT !.nonce = n]
    IN  [b EXCEPT !.hash = compute_hash(b)]

CoinbaseTx_unpaid(self, miner_address) ==
    Tx(Network, miner_address, Num(0), self.reward_currency)

CoinbaseTx(self, miner_address) ==
    Tx(Network, miner_address, self.reward_amount, self.reward_currency)

mine_pending_unlinked(self, chain, miner_address, t) ==
    LET txs == Append(self.pending, CoinbaseTx(self, miner_address))
        new_block == Block(Len(chain), ZeroHash, t, txs, 0, EmptyHash)
    IN  proof_of_work(self, new_block)

mine_pending_offbyone(self, chain, miner_address, t) ==
    LET txs == Append(self.pending, CoinbaseTx(self, miner_address))
        new_block == Block(Len(chain) + 1, get_last_block(chain).hash, t, txs, 0,
                           EmptyHash)
    IN  proof_of_work(self, new_block)

\* the block mine_pending seals on top of `chain` at time t
mine_pending(self, chain, miner_address, t) ==
    LET txs == Append(self.pending, CoinbaseTx(self, miner_address))
        new_block == Block(Len(chain), get_last_block(chain).hash, t, txs, 0, EmptyHash)
    IN  proof_of_work(self, new_block)

is_chain_valid_nolink(chain) ==
    \A i \in 2..Len(chain) : compute_hash(chain[i]) = chain[i].hash

\* the loop of is_chain_valid from block `i` on (the code's i is i - 1)
RECURSIVE ValidFrom(_, _)
ValidFrom(chain, i) ==
    IF i > Len(chain) THEN TRUE
    ELSE IF chain[i].previous_hash # chain[i - 1].hash THEN FALSE
    ELSE IF compute_hash(chain[i]) # chain[i].hash THEN FALSE
    ELSE ValidFrom(chain, i + 1)

is_chain_valid_genesis(chain) ==
    compute_hash(chain[1]) = chain[1].hash /\ ValidFrom(chain, 2)

is_chain_valid(chain) == ValidFrom(chain, 2)

-----------------------------------------------------------------------------
(* Initial state *)

\* the difficulties a ledger is constructed with (config.py: POW_DIFFICULTY)
Difficulties == {0, 1}

\* 0.5, in tenths
Half == 5

\* hash_power in tenths: 0.3, 0.5 and 0.6 (the default)
HashPowers == {3, Half, DEFAULT_HASH_POWER}

\* draws of random.random(), in tenths
Draws == {0, 4, 5, 6, 9}

Chain(self) == lists[self.chain]

\* AttackerNode(blockchain, hash_power)
AttackerNode(hash_power) == [hash_power |-> hash_power]

\* no AttackerNode is running an attack
NoAttacker == AttackerNode(0)

NoCall ==
    [op |-> "none", target |-> "none", miner |-> "", sender |-> "",
     receiver |-> "", amount |-> Num(0), currency |-> "", pre_chain |-> <<>>, pre_pending |-> <<>>,
     block |-> NoBlock, tx |-> NoTx, raised |-> FALSE, ret |-> FALSE]

NoFrame ==
    [op |-> "none", victim_tx |-> NoTx, attacker_tx |-> NoTx,
     honest_block |-> NoBlock, private_block |-> NoBlock,
     honest_after |-> <<>>, draw |-> 0, ret |-> FALSE]

\* the locals of resolve_conflicts (longest_chain <<>> is None), the peers
\* still to ask, the chain the node had when it was called and the chains
\* the peers have answered with
NoRc == [current_len |-> 0, longest_chain |-> <<>>, todo |-> {},
         pre |-> <<>>, offered |-> {}]

\* no mine_pending is in progress: at "sealed" it has built and sealed
\* new_block from its snapshot txs of the pending pool, at "appended" it has
\* appended new_block to the chain
NoMine == [at |-> "none", txs |-> <<>>, new_block |-> NoBlock]

\* nothing has been rendered yet; `sealing` is the block of the
\* mine_pending in progress at the moment of the read
NoSeen == [chain |-> <<>>, pending |-> <<>>, txs |-> <<>>, sealing |-> NoBlock]

\* self.peers of the Node
Peers == {"peer1", "peer2"}

Init ==
    /\ \E d \in Difficulties :
        blockchain = Ledger(d, Num(MINING_REWARD), DEFAULT_CURRENCY, 1, <<>>)
    /\ lists = [r \in 1..2 |->
                  IF r = 1 THEN create_genesis(blockchain, 0) ELSE <<>>]
    /\ attacker_chain = NoLedger
    /\ attacker = NoAttacker
    /\ pc = "idle"
    /\ frame = NoFrame
    /\ call = NoCall
    /\ now = 0
    /\ accepted = 0
    /\ ops = 0
    /\ peers = [p \in Peers |-> create_genesis(blockchain, 0)]
    /\ rc = NoRc
    /\ mine = NoMine
    /\ seen = NoSeen

-----------------------------------------------------------------------------
(* Inputs *)

Senders == {"Alice"}
Receivers == {"Bob"}
\* the (amount, currency) arguments of add_transaction; currency "None" is
\* the omitted argument
AddInputs ==
    {<<Num(5), "None">>, <<Num(5), "BTC">>, <<Num(0), "None">>, <<Num(0 - 1), "BTC">>,
     <<Text, "None">>, <<Inf, "None">>, <<NaN, "None">>}
Miners == {"WebMiner"}

\* the double-spend pairs the request layer builds (app.py:77-88): same
\* sender, amount and currency, different receivers
AttackAmounts == {Num(20)}
VictimTx(a) == Tx("Alice", "Merchant", a, DEFAULT_CURRENCY)
AttackerTx(a) == Tx("Alice", "Attacker", a, DEFAULT_CURRENCY)

MineCall(target, self, chain, miner, blk) ==
    [NoCall EXCEPT !.op = "mine_pending", !.target = target, !.miner = miner,
                   !.pre_chain = chain, !.pre_pending = self.pending,
                   !.block = blk]

-----------------------------------------------------------------------------
(* The clock *)

Tick ==
    /\ now < MaxTime
    /\ now' = now + 1
    /\ UNCHANGED <<mine, seen, ops, accepted, blockchain, attacker_chain, lists, attacker, pc, frame, call, peers, rc>>

-----------------------------------------------------------------------------
(* blockchain.py: the ledger's operations on the honest ledger *)

AddTransaction ==
    \E sender \in Senders, receiver \in Receivers, input \in AddInputs :
      LET amount == input[1]
          currency == input[2]
      IN
        /\ pc = "idle"
        /\ AddRaises(amount) \/ ops < MaxOps
        /\ accepted' = IF AddRaises(amount) THEN accepted ELSE accepted + 1
        /\ ops' = IF AddRaises(amount) THEN ops ELSE ops + 1
        /\ blockchain' = [blockchain EXCEPT !.pending =
                            add_transaction(blockchain, sender, receiver, amount, currency)]
        /\ call' = [NoCall EXCEPT
                      !.op = "add_transaction", !.target = "blockchain",
                      !.sender = sender, !.receiver = receiver,
                      !.amount = amount, !.currency = currency,
                      !.pre_chain = Chain(blockchain),
                      !.pre_pending = blockchain.pending,
                      !.raised = AddRaises(amount),
                      !.tx = IF AddRaises(amount) THEN NoTx
                             ELSE NewTx(blockchain, sender, receiver, amount, currency)]
        /\ UNCHANGED <<mine, seen, attacker_chain, lists, attacker, pc, frame, now, peers, rc>>

MinePending_overwrites ==
    \E miner \in Miners :
        /\ pc = "idle"
        /\ ops < MaxOps
        /\ ops' = ops + 1
        /\ LET blk == mine_pending(blockchain, Chain(blockchain), miner, now)
           IN  /\ lists' = [lists EXCEPT ![blockchain.chain] =
                               Append(SubSeq(@, 1, Len(@) - 1), blk)]
               /\ call' = MineCall("blockchain", blockchain, Chain(blockchain), miner, blk)
        /\ blockchain' = [blockchain EXCEPT !.pending = <<>>]
        /\ UNCHANGED <<mine, seen, accepted, attacker_chain, attacker, pc, frame, now,
                       peers, rc>>

MinePending_keeps ==
    \E miner \in Miners :
        /\ pc = "idle"
        /\ ops < MaxOps
        /\ ops' = ops + 1
        /\ LET blk == mine_pending(blockchain, Chain(blockchain), miner, now)
           IN  /\ lists' = [lists EXCEPT ![blockchain.chain] = Append(@, blk)]
               /\ call' = MineCall("blockchain", blockchain, Chain(blockchain), miner, blk)
        /\ UNCHANGED <<mine, seen, blockchain, accepted, attacker_chain, attacker, pc,
                       frame, now, peers, rc>>

\* self.chain.append(new_block); self.pending = []
MinePending ==
    \E miner \in Miners :
        /\ pc = "idle"
        /\ ops < MaxOps
        /\ ops' = ops + 1
        /\ LET blk == mine_pending(blockchain, Chain(blockchain), miner, now)
           IN  /\ lists' = [lists EXCEPT ![blockchain.chain] = Append(@, blk)]
               /\ call' = MineCall("blockchain", blockchain, Chain(blockchain), miner, blk)
        /\ blockchain' = [blockchain EXCEPT !.pending = <<>>]
        /\ UNCHANGED <<mine, seen, accepted, attacker_chain, attacker, pc, frame, now, peers, rc>>

-----------------------------------------------------------------------------
(* attack.py: the two attacks, one action per step of the method *)

NewList_alias(ref) == ref

\* the reference of the list object that list(...) or a slice creates: the
\* heap cell the honest ledger does not use
NewList(ref) == 3 - ref

\* blockchain.pending.append(victim_tx); blockchain.mine_pending("HonestMiner")
HonestConfirm(op, next) ==
    \E a \in AttackAmounts, p \in HashPowers :
        /\ pc = "idle"
        /\ attacker' = AttackerNode(p)
        /\ ops < MaxOps
        /\ ops' = ops + 1
        /\ LET self == [blockchain EXCEPT !.pending = Append(@, VictimTx(a))]
               blk == mine_pending(self, Chain(blockchain), "HonestMiner", now)
           IN  /\ lists' = [lists EXCEPT ![blockchain.chain] = Append(@, blk)]
               /\ call' = MineCall("blockchain", self, Chain(blockchain), "HonestMiner", blk)
               /\ frame' = [NoFrame EXCEPT
                              !.op = op, !.victim_tx = VictimTx(a),
                              !.attacker_tx = AttackerTx(a), !.honest_block = blk,
                              !.honest_after = Append(Chain(blockchain), blk)]
        /\ blockchain' = [blockchain EXCEPT !.pending = <<>>]
        /\ pc' = next
        /\ UNCHANGED <<mine, seen, accepted, attacker_chain, now, peers, rc>>

AttackerMine_shared(self, next) ==
    LET blk == mine_pending(self, Chain(attacker_chain), "Attacker", now)
    IN  /\ lists' = [r \in DOMAIN lists |-> Append(lists[r], blk)]
        /\ call' = MineCall("attacker_chain", self, Chain(attacker_chain), "Attacker", blk)
        /\ frame' = [frame EXCEPT !.private_block = blk]
        /\ attacker_chain' = [attacker_chain EXCEPT !.pending = <<>>]
        /\ pc' = next
        /\ UNCHANGED <<mine, seen, ops, accepted, blockchain, attacker, now, peers, rc>>

\* attacker_chain.mine_pending("Attacker") on the attacker's fork
AttackerMine(self, next) ==
    LET blk == mine_pending(self, Chain(attacker_chain), "Attacker", now)
    IN  /\ lists' = [lists EXCEPT ![attacker_chain.chain] = Append(@, blk)]
        /\ call' = MineCall("attacker_chain", self, Chain(attacker_chain), "Attacker", blk)
        /\ frame' = [frame EXCEPT !.private_block = blk]
        /\ attacker_chain' = [attacker_chain EXCEPT !.pending = <<>>]
        /\ pc' = next
        /\ UNCHANGED <<mine, seen, ops, accepted, blockchain, attacker, now, peers, rc>>

\* attacker_chain = Blockchain(...); attacker_chain.chain = <a new list>;
\* attacker_chain.pending.append(attacker_tx)
Fork(ref, content, next) ==
    /\ attacker_chain' = Ledger(blockchain.difficulty, blockchain.reward_amount,
                                blockchain.reward_currency, ref, <<frame.attacker_tx>>)
    /\ lists' = [lists EXCEPT ![ref] = content]
    /\ call' = NoCall
    /\ pc' = next
    /\ UNCHANGED <<mine, seen, ops, accepted, blockchain, attacker, frame, now, peers, rc>>

RaceStart == HonestConfirm("race_attack", "race_fork")

RaceFork ==
    /\ pc = "race_fork"
    /\ Fork(NewList(blockchain.chain), Chain(blockchain), "race_mine")

RaceMine ==
    /\ pc = "race_mine"
    /\ AttackerMine(attacker_chain, "race_decide")

RaceWins_atleast(hash_power, draw) == hash_power >= Half /\ draw < hash_power

\* if self.hash_power > 0.5 and random.random() < self.hash_power
RaceWins(hash_power, draw) == hash_power > Half /\ draw < hash_power

RaceDecide ==
    \E draw \in Draws :
        /\ pc = "race_decide"
        /\ blockchain' = IF RaceWins(attacker.hash_power, draw)
                         THEN [blockchain EXCEPT !.chain = attacker_chain.chain]
                         ELSE blockchain
        /\ frame' = [frame EXCEPT !.draw = draw,
                                  !.ret = RaceWins(attacker.hash_power, draw)]
        /\ call' = NoCall
        /\ pc' = "returned"
        /\ UNCHANGED <<mine, seen, ops, accepted, attacker_chain, lists, attacker, now, peers, rc>>

FiftyOneStart == HonestConfirm("fifty_one_attack", "f51_fork")

FiftyOneFork_fresh ==
    /\ pc = "f51_fork"
    /\ Fork(NewList(blockchain.chain), create_genesis(blockchain, now), "f51_mine")

\* list(blockchain.chain[:-1])
FiftyOneFork ==
    /\ pc = "f51_fork"
    /\ Fork(NewList(blockchain.chain),
            SubSeq(Chain(blockchain), 1, Len(Chain(blockchain)) - 1), "f51_mine")

FiftyOneMine ==
    /\ pc = "f51_mine"
    /\ AttackerMine(attacker_chain, "f51_loop")

FillerTx == Tx(Network, "Attacker", Num(0), blockchain.reward_currency)

LoopCondition_short == Len(Chain(attacker_chain)) < Len(Chain(blockchain))

\* while len(attacker_chain.chain) <= len(blockchain.chain)
LoopCondition == Len(Chain(attacker_chain)) <= Len(Chain(blockchain))

FiftyOneFiller_noappend ==
    /\ pc = "f51_loop"
    /\ LoopCondition
    /\ attacker_chain' = [attacker_chain EXCEPT !.pending = <<>>]
    /\ frame' = [frame EXCEPT !.private_block =
                    mine_pending([attacker_chain EXCEPT !.pending = Append(@, FillerTx)],
                                 Chain(attacker_chain), "Attacker", now)]
    /\ call' = NoCall
    /\ UNCHANGED <<mine, seen, ops, accepted, blockchain, lists, attacker, pc, now,
                   peers, rc>>

FiftyOneFiller ==
    /\ pc = "f51_loop"
    /\ LoopCondition
    /\ AttackerMine([attacker_chain EXCEPT !.pending = Append(@, FillerTx)], "f51_loop")

FiftyOneLoopExit ==
    /\ pc = "f51_loop"
    /\ ~LoopCondition
    /\ pc' = "f51_reveal"
    /\ call' = NoCall
    /\ UNCHANGED <<mine, seen, ops, accepted, blockchain, attacker_chain, lists, attacker, frame, now, peers, rc>>

\* if len(attacker_chain.chain) > len(blockchain.chain)
Longer == Len(Chain(attacker_chain)) > Len(Chain(blockchain))

FiftyOneReveal ==
    /\ pc = "f51_reveal"
    /\ blockchain' = IF Longer THEN [blockchain EXCEPT !.chain = attacker_chain.chain]
                     ELSE blockchain
    /\ frame' = [frame EXCEPT !.ret = Longer]
    /\ call' = NoCall
    /\ pc' = "returned"
    /\ UNCHANGED <<mine, seen, ops, accepted, attacker_chain, lists, attacker, now, peers, rc>>

\* the attack method returns: its locals die, and with them every list that
\* only they referred to (the honest chain's list is renumbered to 1)
Return ==
    /\ pc = "returned"
    /\ lists' = [r \in 1..2 |-> IF r = 1 THEN Chain(blockchain) ELSE <<>>]
    /\ blockchain' = [blockchain EXCEPT !.chain = 1]
    /\ attacker_chain' = NoLedger
    /\ frame' = NoFrame
    /\ call' = NoCall
    /\ attacker' = NoAttacker
    /\ pc' = "idle"
    /\ UNCHANGED <<mine, seen, ops, accepted, now, peers, rc>>

Next ==
    \/ Tick
    \/ AddTransaction
    \/ MinePending
    \/ RaceStart
    \/ RaceFork
    \/ RaceMine
    \/ RaceDecide
    \/ FiftyOneStart
    \/ FiftyOneFork
    \/ FiftyOneMine
    \/ FiftyOneFiller
    \/ FiftyOneLoopExit
    \/ FiftyOneReveal
    \/ Return

Spec == Init /\ [][Next]_vars

\* honest operation: add_transaction and mine_pending calls only, one
\* after the other
NextHonest ==
    \/ Tick
    \/ AddTransaction
    \/ MinePending

SpecHonest == Init /\ [][NextHonest]_vars

\* fifty_one_attack run again and again on one ledger, as the tests do; a
\* method that has begun runs on, statement after statement
NextMajority ==
    \/ Tick
    \/ FiftyOneStart
    \/ FiftyOneFork
    \/ FiftyOneMine
    \/ FiftyOneFiller
    \/ FiftyOneLoopExit
    \/ FiftyOneReveal
    \/ Return

\* every proof-of-work search terminates: WF_vars(FiftyOneMine) and
\* WF_vars(FiftyOneFiller), with the states that enable them written out
MiningTerminates ==
    /\ []<>(pc # "f51_mine") \/ []<><<FiftyOneMine>>_vars
    /\ []<>(~(pc = "f51_loop" /\ LoopCondition)) \/ []<><<FiftyOneFiller>>_vars

SpecMajority ==
    /\ Init
    /\ [][NextMajority]_vars
    /\ WF_vars(FiftyOneFork)
    /\ WF_vars(FiftyOneLoopExit)
    /\ WF_vars(FiftyOneReveal)
    /\ MiningTerminates

\* the chain of the honest ledger (of the Node's ledger, in SpecNode)
HonestChain == Chain(blockchain)

-----------------------------------------------------------------------------
(* node.py: a Node, its peers and the fork choice *)

\* what a peer may do to a block of the chain it serves: change one hashed
\* field and, with `recompute`, store the block's recomputed hash
TamperFields == {"index", "previous_hash", "timestamp", "transactions", "nonce"}

Tamper(chain, i, field, recompute) ==
    LET b == chain[i]
        forged ==
            CASE field = "index" -> [b EXCEPT !.index = @ + 1]
              [] field = "previous_hash" -> [b EXCEPT !.previous_hash = EmptyHash]
              [] field = "timestamp" -> [b EXCEPT !.timestamp = @ + 1]
              [] field = "transactions" ->
                    [b EXCEPT !.transactions[1].amount.val = @ + 1]
              [] field = "nonce" -> [b EXCEPT !.nonce = @ + 1]
    IN  [chain EXCEPT ![i] =
            IF recompute THEN [forged EXCEPT !.hash = compute_hash(forged)]
            ELSE forged]

\* no block of the chain has been tampered with
Untouched(chain) ==
    \A i \in 1..Len(chain) :
        chain[i].transactions[1].amount \in {Num(0), Num(MINING_REWARD)}

\* a peer that runs the ledger's code seals a block on the chain it serves
PeerMine ==
    \E p \in Peers :
        /\ pc = "idle"
        /\ Len(peers[p]) < MaxPeerChain
        /\ peers' = [peers EXCEPT ![p] =
                        Append(@, mine_pending([blockchain EXCEPT !.pending = <<>>],
                                               @, p, now))]
        /\ UNCHANGED <<mine, seen, blockchain, attacker_chain, lists, attacker, pc, frame, call,
                       now, accepted, ops, rc>>

\* a peer changes a transaction amount in the chain it serves
PeerTamper ==
    \E p \in Peers, recompute \in BOOLEAN :
        \E i \in 1..Len(peers[p]) :
            /\ pc = "idle"
            /\ Untouched(peers[p])
            /\ peers' = [peers EXCEPT ![p] = Tamper(@, i, "transactions", recompute)]
            /\ UNCHANGED <<mine, seen, blockchain, attacker_chain, lists, attacker, pc, frame,
                           call, now, accepted, ops, rc>>

block_from_dict(block_data) ==
    Block(block_data.index, block_data.previous_hash, block_data.timestamp,
          block_data.transactions, block_data.nonce, block_data.hash)

FromDicts(chain_data) == [i \in 1..Len(chain_data) |-> block_from_dict(chain_data[i])]

\* the chain validate_chain stores in self.blockchain.chain before it
\* validates
validate_chain_assigns(chain_data) == FromDicts(chain_data)

\* the value validate_chain returns
validate_chain(chain_data) == is_chain_valid(FromDicts(chain_data))

PeerLonger_orequal(peer_chain, current_len) == Len(peer_chain) >= current_len

\* len(peer_chain) > current_len
PeerLonger(peer_chain, current_len) == Len(peer_chain) > current_len

\* POST /add_block with the block a peer broadcasts, the last of its chain:
\* appended when it names the local tip, else resolve_conflicts is entered
AddBlock ==
    \E p \in Peers :
        LET block == block_from_dict(peers[p][Len(peers[p])])
            matches == block.previous_hash = get_last_block(HonestChain).hash
        IN  /\ pc = "idle"
            /\ Len(peers[p]) >= 2
            /\ lists' = IF matches
                        THEN [lists EXCEPT ![blockchain.chain] = Append(@, block)]
                        ELSE lists
            /\ pc' = IF matches THEN "idle" ELSE "rc_loop"
            /\ rc' = IF matches THEN NoRc
                     ELSE [current_len |-> Len(HonestChain), longest_chain |-> <<>>,
                           todo |-> Peers, pre |-> HonestChain, offered |-> {}]
            /\ call' = [NoCall EXCEPT !.op = "add_block", !.target = "blockchain",
                                      !.pre_chain = HonestChain, !.block = block,
                                      !.ret = matches]
            /\ UNCHANGED <<mine, seen, blockchain, attacker_chain, attacker, frame, now,
                           accepted, ops, peers>>

\* one iteration of `for peer in self.peers`; `reachable` is whether
\* requests.get answered
ResolveExamine ==
    \E p \in rc.todo, reachable \in BOOLEAN :
        LET peer_chain == peers[p]
            longer == reachable /\ PeerLonger(peer_chain, rc.current_len)
            valid == longer /\ validate_chain(peer_chain)
        IN  /\ pc = "rc_loop"
            /\ lists' = IF longer
                        THEN [lists EXCEPT ![blockchain.chain] =
                                validate_chain_assigns(peer_chain)]
                        ELSE lists
            /\ rc' = [rc EXCEPT
                        !.todo = @ \ {p},
                        !.offered = IF reachable THEN @ \cup {peer_chain} ELSE @,
                        !.current_len = IF valid THEN Len(peer_chain) ELSE @,
                        !.longest_chain = IF valid THEN peer_chain ELSE @]
            /\ UNCHANGED <<mine, seen, blockchain, attacker_chain, attacker, pc, frame, call,
                           now, accepted, ops, peers>>

\* if longest_chain: self.blockchain.chain = [block_from_dict(b) ...]
ResolveAdopt ==
    /\ pc = "rc_loop"
    /\ rc.todo = {}
    /\ lists' = IF rc.longest_chain # <<>>
                THEN [lists EXCEPT ![blockchain.chain] = FromDicts(rc.longest_chain)]
                ELSE lists
    /\ pc' = "rc_done"
    /\ UNCHANGED <<mine, seen, blockchain, attacker_chain, attacker, frame, call, now,
                   accepted, ops, peers, rc>>

\* resolve_conflicts and add_block return
ResolveReturn ==
    /\ pc = "rc_done"
    /\ pc' = "idle"
    /\ rc' = NoRc
    /\ UNCHANGED <<mine, seen, blockchain, attacker_chain, lists, attacker, frame, call, now,
                   accepted, ops, peers>>

NextNode ==
    \/ PeerMine
    \/ PeerTamper
    \/ AddBlock
    \/ ResolveExamine
    \/ ResolveAdopt
    \/ ResolveReturn

SpecNode == Init /\ [][NextNode]_vars

-----------------------------------------------------------------------------
(* blockchain.py: is_chain_valid on any chain.  Node.validate_chain stores  *)
(* whatever chain a peer sent in the ledger and calls is_chain_valid on it: *)
(* the chain is built here block by block and field by field.              *)

\* the fields of a block a sender can set
ForgeFields == TamperFields \cup {"hash"}

\* the chain with one stored field of block i changed
Forge(chain, i, field, recompute) ==
    IF field = "hash" THEN [chain EXCEPT ![i].hash = EmptyHash]
    ELSE Tamper(chain, i, field, recompute)

\* the chain gets one more block, sealed on its last block
ChainMine ==
    /\ pc = "idle"
    /\ ops < MaxForge
    /\ ops' = ops + 1
    /\ lists' = [lists EXCEPT ![blockchain.chain] =
                    Append(@, mine_pending(blockchain, @, "peer1", now))]
    /\ call' = NoCall
    /\ UNCHANGED <<mine, seen, blockchain, attacker_chain, attacker, pc, frame, now,
                   accepted, peers, rc>>

\* one stored field of one block is set to another value
ChainForge ==
    \E i \in 1..Len(HonestChain), field \in ForgeFields, recompute \in BOOLEAN :
        /\ pc = "idle"
        /\ ops < MaxForge
        /\ ops' = ops + 1
        /\ lists' = [lists EXCEPT ![blockchain.chain] = Forge(@, i, field, recompute)]
        /\ call' = NoCall
        /\ UNCHANGED <<mine, seen, blockchain, attacker_chain, attacker, pc, frame, now,
                       accepted, peers, rc>>

\* self.blockchain.is_chain_valid()
Validate ==
    /\ pc = "idle"
    /\ call' = [NoCall EXCEPT !.op = "is_chain_valid", !.target = "blockchain",
                              !.pre_chain = HonestChain,
                              !.ret = is_chain_valid(HonestChain)]
    /\ UNCHANGED <<mine, seen, blockchain, attacker_chain, lists, attacker, pc, frame,
                   now, accepted, ops, peers, rc>>

NextValid ==
    \/ ChainMine
    \/ ChainForge
    \/ Validate

SpecValid == Init /\ [][NextValid]_vars

-----------------------------------------------------------------------------
(* app.py: the request handlers as threads on the shared ledger.  The      *)
(* development server handles each request in a thread of its own and the   *)
(* ledger takes no lock, so the statements of mine_pending interleave with  *)
(* the other handlers.                                                      *)

\* POST /add_transaction: self.pending.append(tx), at any moment
ConcAddTransaction ==
    \E sender \in Senders, receiver \in Receivers, input \in AddInputs :
        /\ pc = "idle"
        /\ AddRaises(input[1]) \/ ops < MaxOps
        /\ accepted' = IF AddRaises(input[1]) THEN accepted ELSE accepted + 1
        /\ ops' = IF AddRaises(input[1]) THEN ops ELSE ops + 1
        /\ blockchain' = [blockchain EXCEPT !.pending =
                            add_transaction(blockchain, sender, receiver,
                                            input[1], input[2])]
        /\ UNCHANGED <<mine, seen, attacker_chain, lists, attacker, pc, frame, call,
                       now, peers, rc>>

\* GET /mine, up to new_block.hash = self.proof_of_work(new_block)
ConcMineSeal ==
    \E miner \in Miners :
        /\ pc = "idle"
        /\ mine.at = "none"
        /\ ops < MaxOps
        /\ ops' = ops + 1
        /\ mine' = [at |-> "sealed", txs |-> blockchain.pending,
                    new_block |-> mine_pending(blockchain, Chain(blockchain), miner, now)]
        /\ UNCHANGED <<seen, blockchain, attacker_chain, lists, attacker, pc, frame,
                       call, now, accepted, peers, rc>>

\* self.chain.append(new_block)
ConcMineAppend ==
    /\ mine.at = "sealed"
    /\ lists' = [lists EXCEPT ![blockchain.chain] = Append(@, mine.new_block)]
    /\ mine' = [mine EXCEPT !.at = "appended"]
    /\ UNCHANGED <<seen, blockchain, attacker_chain, attacker, pc, frame, call, now,
                   accepted, ops, peers, rc>>

\* self.pending = []; return new_block
ConcMineClear ==
    /\ mine.at = "appended"
    /\ blockchain' = [blockchain EXCEPT !.pending = <<>>]
    /\ mine' = NoMine
    /\ UNCHANGED <<seen, attacker_chain, lists, attacker, pc, frame, call, now,
                   accepted, ops, peers, rc>>

\* GET /: render_home reads the chain and the pending pool of the ledger
RenderHome ==
    /\ seen' = [chain |-> Chain(blockchain), pending |-> blockchain.pending,
                txs |-> mine.txs, sealing |-> mine.new_block]
    /\ UNCHANGED <<mine, blockchain, attacker_chain, lists, attacker, pc, frame, call,
                   now, accepted, ops, peers, rc>>

NextConc ==
    \/ Tick
    \/ ConcAddTransaction
    \/ ConcMineSeal
    \/ ConcMineAppend
    \/ ConcMineClear
    \/ RenderHome

SpecConc == Init /\ [][NextConc]_vars

-----------------------------------------------------------------------------
(* Properties of the ledger and of the attacks *)

Holds(chain, tx) ==
    \E i \in 1..Len(chain) :
        \E k \in 1..Len(chain[i].transactions) : chain[i].transactions[k] = tx

\* the ledger a recorded mine_pending call ran on
Target == IF call.target = "blockchain" THEN blockchain ELSE attacker_chain

\* C1: between and during the calls the honest chain is valid: every block
\* but the first names its predecessor's hash, and stores the hash of its
\* own five hashed fields.
C1_ChainValid ==
    /\ is_chain_valid(HonestChain)
    /\ \A i \in 2..Len(HonestChain) :
        /\ HonestChain[i].previous_hash = HonestChain[i - 1].hash
        /\ HonestChain[i].hash =
             sha256(<<HonestChain[i].index, HonestChain[i].previous_hash,
                      HonestChain[i].timestamp, HonestChain[i].transactions,
                      HonestChain[i].nonce>>)

\* two attacks have run one after the other on the same ledger
C1_Witness ==
    /\ pc = "idle"
    /\ ops = 2
    /\ Len(HonestChain) = 5

\* C2: when mine_pending(id) has returned, the chain is the chain before
\* the call plus the returned block, the pending pool is empty, and the
\* block holds the pending pool as it was, in order, then one coinbase
\* transaction Network -> id of reward_amount in reward_currency.
C2_MineResult ==
    call.op = "mine_pending" =>
        /\ Len(Chain(Target)) = Len(call.pre_chain) + 1
        /\ Chain(Target) = Append(call.pre_chain, call.block)
        /\ Target.pending = <<>>
        /\ Len(call.block.transactions) = Len(call.pre_pending) + 1
        /\ \A k \in 1..Len(call.pre_pending) :
              call.block.transactions[k] = call.pre_pending[k]
        /\ call.block.transactions[Len(call.pre_pending) + 1] =
              [sender |-> "Network", receiver |-> call.miner,
               amount |-> Target.reward_amount, currency |-> Target.reward_currency]

C2_Witness ==
    /\ call.op = "mine_pending"
    /\ call.target = "blockchain"
    /\ Len(call.pre_pending) = 2

\* C3: add_transaction with an amount that is <= 0 or no number raises and
\* leaves the pending pool and the chain as they were.
C3_InvalidAmount ==
    (/\ call.op = "add_transaction"
     /\ \/ call.amount.kind = "text"
        \/ call.amount.kind = "num" /\ call.amount.val <= 0)
    => /\ call.raised
       /\ blockchain.pending = call.pre_pending
       /\ HonestChain = call.pre_chain

C3_Witness ==
    /\ call.op = "add_transaction"
    /\ call.amount = Num(0)
    /\ call.raised
    /\ call.pre_pending # <<>>

\* C4: add_transaction with an amount > 0 appends exactly the transaction
\* {sender, receiver, amount, currency or the reward currency} to the end of
\* the pending pool, returns it, and leaves the chain alone.
C4_AddAppends ==
    (/\ call.op = "add_transaction"
     /\ \/ call.amount.kind = "num" /\ call.amount.val > 0
        \/ call.amount.kind = "inf")
    => /\ ~call.raised
       /\ call.tx = [sender |-> call.sender, receiver |-> call.receiver,
                     amount |-> call.amount,
                     currency |-> IF call.currency = "None"
                                  THEN blockchain.reward_currency
                                  ELSE call.currency]
       /\ blockchain.pending = call.pre_pending \o <<call.tx>>
       /\ HonestChain = call.pre_chain

C4_Witness ==
    /\ call.op = "add_transaction"
    /\ call.amount = Num(5)
    /\ call.currency = "None"
    /\ ~call.raised
    /\ Len(call.pre_pending) = 1
    /\ call.pre_pending[1].currency = "BTC"

\* C5: fifty_one_attack returns True for every hash_power, and when it
\* returns the honest chain is the attacker fork's chain, the block that
\* confirmed victim_tx is not in it, and a block of it holds attacker_tx.
C5_MajorityAttack ==
    (pc = "returned" /\ frame.op = "fifty_one_attack")
    => /\ frame.ret = TRUE
       /\ blockchain.chain = attacker_chain.chain
       /\ HonestChain = Chain(attacker_chain)
       /\ Len(HonestChain) = Len(Chain(attacker_chain))
       /\ \A i \in 1..Len(HonestChain) : HonestChain[i] # frame.honest_block
       /\ Holds(HonestChain, frame.attacker_tx)

\* a second attack, by an attacker without a majority
C5_Witness ==
    /\ pc = "returned"
    /\ frame.op = "fifty_one_attack"
    /\ attacker.hash_power <= Half
    /\ ops = 2
    /\ Len(HonestChain) = 5

\* C6: race_attack returns True exactly when hash_power > 0.5 and the draw
\* is below hash_power; with hash_power <= 0.5 it returns False.
C6_RaceOutcome ==
    (pc = "returned" /\ frame.op = "race_attack")
    => /\ frame.ret = (attacker.hash_power > 5 /\ frame.draw < attacker.hash_power)
       /\ attacker.hash_power <= 5 => frame.ret = FALSE

\* a draw below a hash_power of exactly 0.5
C6_Witness ==
    /\ pc = "returned"
    /\ frame.op = "race_attack"
    /\ attacker.hash_power = 5
    /\ frame.draw < attacker.hash_power

\* C7: when race_attack returns True the honest chain is the attacker
\* clone's chain, ending in the attacker's block with attacker_tx; when it
\* returns False the honest chain is the chain as it was right after the
\* honest miner mined victim_tx.
C7_RaceChain ==
    (pc = "returned" /\ frame.op = "race_attack")
    => IF frame.ret
       THEN /\ blockchain.chain = attacker_chain.chain
            /\ HonestChain = Append(frame.honest_after, frame.private_block)
            /\ \E k \in 1..Len(frame.private_block.transactions) :
                  frame.private_block.transactions[k] = frame.attacker_tx
       ELSE /\ HonestChain = frame.honest_after
            /\ blockchain.chain # attacker_chain.chain

C7_Witness ==
    /\ pc = "returned"
    /\ frame.op = "race_attack"
    /\ ~frame.ret
    /\ Len(Chain(attacker_chain)) = Len(HonestChain) + 1

-----------------------------------------------------------------------------
(* Properties of the Node's fork choice, and of tampering *)

\* the chains the peers offered that are strictly longer than the chain
\* the Node had when resolve_conflicts began
OfferedLonger == {c \in rc.offered : Len(c) > Len(rc.pre)}

OfferedValidLonger ==
    {c \in OfferedLonger :
        \A i \in 2..Len(c) :
            /\ c[i].previous_hash = c[i - 1].hash
            /\ c[i].hash = compute_hash(c[i])}

\* C8: when resolve_conflicts is done, the local chain is a longest one of
\* the valid offered chains strictly longer than the chain it started with,
\* if there is one; a chain that is not strictly longer never replaces the
\* local chain.
C8_LongestValidWins ==
    pc = "rc_done" =>
        /\ OfferedValidLonger # {} =>
              /\ HonestChain \in OfferedValidLonger
              /\ \A c \in OfferedValidLonger : Len(c) <= Len(HonestChain)
        /\ OfferedLonger = {} => HonestChain = rc.pre
        /\ HonestChain # rc.pre => HonestChain \in OfferedLonger

\* two valid longer chains of different lengths were offered, and one of
\* the local chain's own length
C8_Witness ==
    /\ pc = "rc_done"
    /\ \E c1, c2 \in OfferedValidLonger : Len(c1) < Len(c2)
    /\ HonestChain # rc.pre

\* C9: a longer chain that fails validation is rejected without effect:
\* while and after resolve_conflicts examines the peers, and no valid
\* longer chain has been offered, the local chain is the chain it had.
C9_InvalidRejected ==
    (pc \in {"rc_loop", "rc_done"} /\ OfferedValidLonger = {})
    => HonestChain = rc.pre

\* C10 as stated: tampering with any mined block (the last one too) and
\* storing its recomputed hash makes is_chain_valid false.
C10_AnyBlock ==
    \A i \in 2..Len(HonestChain) : \A f \in TamperFields :
        ~is_chain_valid(Tamper(HonestChain, i, f, TRUE))

\* C10, amended: tampering with a mined block that is not the last block of
\* the chain, and storing its recomputed hash, makes is_chain_valid false.
C10_TamperDetected ==
    \A i \in 2..(Len(HonestChain) - 1) : \A f \in TamperFields :
        ~is_chain_valid(Tamper(HonestChain, i, f, TRUE))

C10_Witness ==
    /\ pc = "idle"
    /\ Len(HonestChain) >= 4
    /\ ~is_chain_valid(Tamper(HonestChain, 2, "transactions", TRUE))
    /\ ~is_chain_valid(Tamper(HonestChain, 3, "nonce", TRUE))

-----------------------------------------------------------------------------
(* Properties of the ledger's structure *)

\* the genesis block the honest ledger was constructed with (at time 0)
GenesisBlock ==
    [index |-> 0, previous_hash |-> ZeroHash, timestamp |-> 0,
     transactions |-> <<[sender |-> "Network", receiver |-> "genesis",
                         amount |-> Num(0), currency |-> blockchain.reward_currency]>>,
     nonce |-> 0,
     hash |-> sha256(<<0, ZeroHash, 0,
                       <<[sender |-> "Network", receiver |-> "genesis",
                          amount |-> Num(0),
                          currency |-> blockchain.reward_currency]>>, 0>>)]

\* C11: a freshly constructed ledger has a chain of exactly one block, with
\* index 0, the all-zero previous_hash and one genesis transaction of
\* amount 0, and an empty pending pool; in every state the honest chain is
\* non-empty and its first block is still that genesis block, and the
\* attacker's fork is non-empty too, so get_last_block never fails.
C11_Genesis ==
    /\ ops = 0 => (Len(HonestChain) = 1 /\ blockchain.pending = <<>>)
    /\ Len(HonestChain) >= 1
    /\ HonestChain[1] = GenesisBlock
    /\ HonestChain[1].index = 0
    /\ HonestChain[1].previous_hash = ZeroHash
    /\ Len(HonestChain[1].transactions) = 1
    /\ HonestChain[1].transactions[1].amount = Num(0)
    /\ attacker_chain # NoLedger =>
          (Len(Chain(attacker_chain)) >= 1 /\ Chain(attacker_chain)[1] = GenesisBlock)

\* a 51% attack begun after the clock moved has replaced the honest chain
C11_Witness ==
    /\ pc = "returned"
    /\ frame.op = "fifty_one_attack"
    /\ frame.ret
    /\ frame.honest_block.timestamp = 1
    /\ Len(HonestChain) = 3

\* the number of zero hex digits a digest starts with
RECURSIVE ZeroDigits(_, _)
ZeroDigits(lead, digits) ==
    IF digits = 0 THEN 0
    ELSE IF lead \div Pow(HexBase, digits - 1) = 0
         THEN 1 + ZeroDigits(lead % Pow(HexBase, digits - 1), digits - 1)
         ELSE 0

LeadingZeros(h) == ZeroDigits(h.lead, HashDigits)

\* C12 as stated: every block of the chain, the genesis block too, has a
\* stored hash with at least `difficulty` leading zero digits.
C12_EveryBlock ==
    \A i \in 1..Len(HonestChain) :
        LeadingZeros(HonestChain[i].hash) >= blockchain.difficulty

\* C12, amended: every block of the chain but the genesis block, on the
\* honest ledger and on the attacker's fork, has a stored hash with at least
\* `difficulty` leading zero digits, and so has the block mine_pending
\* returns.
C12_MinedBlocks ==
    /\ \A i \in 2..Len(HonestChain) :
          LeadingZeros(HonestChain[i].hash) >= blockchain.difficulty
    /\ attacker_chain # NoLedger =>
          \A i \in 2..Len(Chain(attacker_chain)) :
              LeadingZeros(Chain(attacker_chain)[i].hash) >= attacker_chain.difficulty
    /\ call.op = "mine_pending" =>
          LeadingZeros(call.block.hash) >= Target.difficulty

\* at difficulty 1 a block was sealed whose search went past nonce 0, and
\* the genesis block's hash does not start with a zero
C12_Witness ==
    /\ blockchain.difficulty = 1
    /\ call.op = "mine_pending"
    /\ call.block.nonce > 0
    /\ Len(HonestChain) >= 3
    /\ LeadingZeros(HonestChain[1].hash) = 0

\* the attacker's fork exists and has not yet been swapped in
Forked == pc \in {"race_mine", "race_decide", "f51_mine", "f51_loop", "f51_reveal"}

\* C14: from the creation of the attacker's fork to the replacement step
\* the fork's chain is a list of its own, the honest chain (length, blocks,
\* every field) and the honest pending pool are what they were when the
\* fork was created, whatever was added or mined on the fork; and the fork
\* started with an empty pending pool: before its first block is mined the
\* pool holds attacker_tx alone.
C14_ForkIsolated ==
    /\ Forked =>
          /\ blockchain.chain # attacker_chain.chain
          /\ Len(HonestChain) = Len(frame.honest_after)
          /\ \A i \in 1..Len(HonestChain) : HonestChain[i] = frame.honest_after[i]
          /\ HonestChain[Len(HonestChain)] = frame.honest_block
          /\ blockchain.pending = <<>>
    /\ pc \in {"race_mine", "f51_mine"} => attacker_chain.pending = <<frame.attacker_tx>>

\* the fork has been mined on twice, past the honest chain's length
C14_Witness ==
    /\ pc = "f51_reveal"
    /\ Len(Chain(attacker_chain)) = Len(HonestChain) + 1
    /\ Len(HonestChain) = 4
    /\ call.op = "none"
    /\ frame.private_block.transactions[1].sender = "Network"

\* a positive finite number
PositiveFinite(amount) == amount.kind = "num" /\ amount.val > 0

\* C15: add_transaction with an amount that is not a positive finite
\* number (zero, negative, no number, +infinity, NaN) raises and leaves the
\* pending pool as it was.
C15_NonFiniteRejected ==
    (call.op = "add_transaction" /\ ~PositiveFinite(call.amount))
    => /\ call.raised
       /\ blockchain.pending = call.pre_pending

\* C18: fifty_one_attack terminates: once begun it returns, and its loop is
\* left for the reveal; every iteration of the loop (private_block is
\* assigned anew) makes the private fork exactly one block longer and leaves
\* the honest chain as it is; and when the loop is left the private fork is
\* strictly longer than the honest chain.
C18_LoopTerminates ==
    /\ (pc = "f51_fork") ~> (pc = "returned")
    /\ (pc = "f51_loop") ~> (pc = "f51_reveal")
    /\ [][(pc = "f51_loop" /\ frame'.private_block # frame.private_block)
            => /\ Len(lists'[attacker_chain'.chain]) = Len(Chain(attacker_chain)) + 1
               /\ lists'[blockchain'.chain] = HonestChain]_vars
    /\ [][(pc = "f51_loop" /\ pc' # "f51_loop")
            => /\ pc' = "f51_reveal"
               /\ Len(lists'[attacker_chain'.chain]) > Len(lists'[blockchain'.chain])]_vars
    /\ [](pc = "f51_reveal" => Len(Chain(attacker_chain)) > Len(HonestChain))

\* the loop of a third-of-the-power attacker's second attack has been left
C18_Witness ==
    /\ pc = "f51_reveal"
    /\ ops = 2
    /\ attacker.hash_power = 3
    /\ frame.private_block.index = Len(HonestChain)
    /\ frame.private_block.transactions[1].receiver = "Attacker"

\* C19: every block's index is its position in the chain, counted from 0,
\* on the honest chain in every state (also when it is a fork that was
\* swapped in) and on the attacker's fork.
C19_IndexIsPosition ==
    /\ \A i \in 1..Len(HonestChain) : HonestChain[i].index = i - 1
    /\ \A i \in 2..Len(HonestChain) :
          HonestChain[i].index = HonestChain[i - 1].index + 1
    /\ attacker_chain # NoLedger =>
          \A i \in 1..Len(Chain(attacker_chain)) : Chain(attacker_chain)[i].index = i - 1

\* a race won on a chain that a 51% attack had replaced before
C19_Witness ==
    /\ pc = "returned"
    /\ frame.op = "race_attack"
    /\ frame.ret
    /\ ops = 2
    /\ Len(HonestChain) = 5
    /\ HonestChain[2].transactions[1].receiver = "Attacker"

\* C20: when race_attack has returned True, a block of the honest chain
\* holds attacker_tx and no block of it holds victim_tx.
C20_VictimInvalidated ==
    (pc = "returned" /\ frame.op = "race_attack" /\ frame.ret)
    => /\ Holds(HonestChain, frame.attacker_tx)
       /\ ~Holds(HonestChain, frame.victim_tx)

\* C21: a /add_block request that found the node's chain valid and
\* answered "Block added" leaves the node's chain valid, whatever block the
\* peer sent.
C21_AddBlockVerifies ==
    (/\ call.op = "add_block"
     /\ call.ret
     /\ is_chain_valid(call.pre_chain))
    => is_chain_valid(HonestChain)

\* the number of transactions in the blocks after the genesis block that
\* are not the block's coinbase (its last transaction)
RECURSIVE Confirmed(_)
Confirmed(chain) ==
    IF Len(chain) <= 1 THEN 0
    ELSE Len(chain[Len(chain)].transactions) - 1
         + Confirmed(SubSeq(chain, 1, Len(chain) - 1))

\* C22: under add_transaction and mine_pending calls alone, the number of
\* transactions add_transaction has accepted is the length of the pending
\* pool plus the number of non-coinbase transactions in the mined blocks,
\* every mined block ending in its coinbase.
C22_Conservation ==
    /\ accepted = Len(blockchain.pending) + Confirmed(HonestChain)
    /\ \A i \in 2..Len(HonestChain) :
          /\ Len(HonestChain[i].transactions) >= 1
          /\ HonestChain[i].transactions[Len(HonestChain[i].transactions)].sender
                = "Network"

\* an accepted transaction has been mined into a block
C22_Witness ==
    /\ accepted = 1
    /\ blockchain.pending = <<>>
    /\ Len(HonestChain) = 2
    /\ Len(HonestChain[2].transactions) = 2
    /\ HonestChain[2].transactions[1].receiver = "Bob"

\* C23: after every add_transaction or mine_pending call, on the honest
\* ledger or on the attacker's fork, the chain the call found is a prefix of
\* the chain it left: no block is gone or has moved, and every field of
\* every block it found is as it was.
C23_ChainPrefix ==
    call.op \in {"add_transaction", "mine_pending"} =>
        /\ Len(call.pre_chain) <= Len(Chain(Target))
        /\ \A i \in 1..Len(call.pre_chain) :
              /\ Chain(Target)[i].index = call.pre_chain[i].index
              /\ Chain(Target)[i].previous_hash = call.pre_chain[i].previous_hash
              /\ Chain(Target)[i].timestamp = call.pre_chain[i].timestamp
              /\ Chain(Target)[i].transactions = call.pre_chain[i].transactions
              /\ Chain(Target)[i].nonce = call.pre_chain[i].nonce
              /\ Chain(Target)[i].hash = call.pre_chain[i].hash

\* a mine_pending call on a chain of three blocks that holds a pending
\* transaction of the caller's
C23_Witness ==
    /\ call.op = "mine_pending"
    /\ call.target = "blockchain"
    /\ Len(call.pre_chain) = 3
    /\ Len(HonestChain) = 4
    /\ Len(call.pre_pending) = 1

-----------------------------------------------------------------------------
(* Properties of is_chain_valid and proof_of_work *)

\* C16: on any chain is_chain_valid returns True exactly when every block
\* but the first names the stored hash of the block before it and stores the
\* hash of its own five hashed fields; the first block's stored hash and
\* the leading zeros of any hash play no part.
C16_ValidExactly ==
    call.op = "is_chain_valid" =>
        /\ call.ret =
              \A i \in 2..Len(call.pre_chain) :
                  /\ call.pre_chain[i].previous_hash = call.pre_chain[i - 1].hash
                  /\ call.pre_chain[i].hash =
                       sha256(<<call.pre_chain[i].index, call.pre_chain[i].previous_hash,
                                call.pre_chain[i].timestamp,
                                call.pre_chain[i].transactions, call.pre_chain[i].nonce>>)
        /\ HonestChain = call.pre_chain

\* a chain found valid whose first block does not store its own hash and
\* whose last block's hash misses the difficulty
C16_Witness ==
    /\ call.op = "is_chain_valid"
    /\ call.ret
    /\ Len(call.pre_chain) = 2
    /\ blockchain.difficulty = 1
    /\ call.pre_chain[1].hash # compute_hash(call.pre_chain[1])
    /\ LeadingZeros(call.pre_chain[2].hash) = 0

\* the hash of the sealed block `b` had it the nonce n
HashAt(b, n) ==
    sha256(<<b.index, b.previous_hash, b.timestamp, b.transactions, n>>)

\* C17: the block proof_of_work has sealed carries the smallest nonce
\* n >= 0 whose hash starts with `difficulty` zero digits (no smaller nonce
\* gives such a hash, and with difficulty 0 the nonce is 0), and its stored
\* hash is the hash of its fields with that nonce.
C17_SmallestNonce ==
    call.op = "mine_pending" =>
        /\ call.block.nonce >= 0
        /\ LeadingZeros(HashAt(call.block, call.block.nonce)) >= Target.difficulty
        /\ \A n \in 0..(call.block.nonce - 1) :
              LeadingZeros(HashAt(call.block, n)) < Target.difficulty
        /\ call.block.hash = HashAt(call.block, call.block.nonce)
        /\ Target.difficulty = 0 => call.block.nonce = 0

\* a search that went past several nonces
C17_Witness ==
    /\ call.op = "mine_pending"
    /\ Target.difficulty = 1
    /\ call.block.nonce >= 3
    /\ Len(call.block.transactions) >= 2

-----------------------------------------------------------------------------
(* Properties of the handlers running concurrently *)

\* a chain and pending pool that were read while a mine_pending was in
\* progress show its block as the last block of the chain
ShowsBlock(view) ==
    /\ view.sealing # NoBlock
    /\ view.chain[Len(view.chain)] = view.sealing

\* the pending pool that was read still begins with the transactions the
\* mine_pending in progress took into its block
ShowsPending(view) ==
    /\ view.txs # <<>>
    /\ Len(view.pending) >= Len(view.txs)
    /\ SubSeq(view.pending, 1, Len(view.txs)) = view.txs

\* C13: a handler that reads the chain and the pending pool while
\* mine_pending runs never sees the new block as the last block of the
\* chain together with a pending pool that still holds the block's
\* transactions, and never sees the pool cleared before the block is in
\* the chain.
C13_AtomicAppendClear ==
    /\ ~(ShowsBlock(seen) /\ ShowsPending(seen))
    /\ ~(/\ seen.sealing # NoBlock
         /\ seen.txs # <<>>
         /\ seen.pending = <<>>
         /\ ~ShowsBlock(seen))

\* C24: no accepted transaction is lost when add_transaction runs while a
\* mine_pending is in progress: once no mine_pending is in progress, every
\* transaction that add_transaction accepted is in a mined block or still
\* in the pending pool.
C24_NoLostTransaction ==
    mine.at = "none" =>
        accepted = Len(blockchain.pending) + Confirmed(HonestChain)

====
